---- MODULE Spec2Model ----
(***************************************************************************)
(* Trapezoidal fuzzy numbers Tra(a1, a2, a3, a4): the constructor, the     *)
(* classification predicates and the arithmetic operators of the class     *)
(* TrapezoidalFuzzyNumber.  Boundaries are exact rationals <<n, d>> with   *)
(* d > 0 in lowest terms, so that quotients are computed and compared the  *)
(* way the real-number formulas of the source compute them.  The two       *)
(* permutation testers of the ambiguity package run on samples of such     *)
(* rationals, one resample per step.                                       *)
(***************************************************************************)
EXTENDS Integers, Sequences, FiniteSets, TLC

VARIABLES op, self, other, number, args, routine, branch, result

\* The run of a permutation tester: which tester, the samples it is called
\* with and whether they are passed as one argument, its position, and its
\* local variables.
VARIABLES tester, packed, samples, pc, t_0, concat, counter_d, iteration,
          draw, statistic

tvars == <<tester, packed, samples, pc, t_0, concat, counter_d, iteration,
           draw, statistic>>

\* The collection of tables handed to the ambiguity extractor.
VARIABLES tables

vars == <<op, self, other, number, args, routine, branch, result,
          tester, packed, samples, pc, t_0, concat, counter_d, iteration,
          draw, statistic, tables>>

(***************************************************************************)
(* Bounds of the explored inputs.                                          *)
(***************************************************************************)
MaxVal == 2
MaxScalar == 2
MaxRaw == 4
MaxArgs == 5
MaxSample == 1
MaxLen == 2
MaxPool == 4
MaxArity == 3
MaxTables == 2
MaxRows == 3
\* The number of resamples, k = 10000 in both testers.
K == 2

(***************************************************************************)
(* Rational arithmetic: the Python operators +, -, *, /, <, <= on numbers. *)
(***************************************************************************)
Abs(x) == IF x < 0 THEN -x ELSE x

RECURSIVE GCD(_, _)
GCD(a, b) == IF b = 0 THEN a ELSE GCD(b, a % b)

Frac(n, d) ==
    LET s == IF d < 0 THEN -1 ELSE 1
        g == GCD(Abs(n), Abs(d))
    IN  <<(s * n) \div g, (s * d) \div g>>

R(n) == <<n, 1>>
Zero == R(0)

RAdd(x, y) == Frac(x[1] * y[2] + y[1] * x[2], x[2] * y[2])
RSub(x, y) == Frac(x[1] * y[2] - y[1] * x[2], x[2] * y[2])
RNeg(x) == <<-x[1], x[2]>>
RMul(x, y) == Frac(x[1] * y[1], x[2] * y[2])
RDiv(x, y) == Frac(x[1] * y[2], x[2] * y[1])
RLt(x, y) == x[1] * y[2] < y[1] * x[2]
RLe(x, y) == x[1] * y[2] <= y[1] * x[2]

\* Python's min(x, y) and max(x, y): the first argument unless the second is
\* strictly smaller (resp. larger).
Min2(x, y) == IF RLt(y, x) THEN y ELSE x
Max2(x, y) == IF RLt(x, y) THEN y ELSE x
Min4(w, x, y, z) == Min2(Min2(Min2(w, x), y), z)
Max4(w, x, y, z) == Max2(Max2(Max2(w, x), y), z)

\* Ascending sort of a sequence (np.sort, sorted): insertion sort.
RECURSIVE Insert(_, _)
Insert(x, s) ==
    IF s = <<>> THEN <<x>>
    ELSE IF RLe(x, Head(s)) THEN <<x>> \o s
    ELSE <<Head(s)>> \o Insert(x, Tail(s))

RECURSIVE Ascending(_)
Ascending(s) == IF s = <<>> THEN <<>> ELSE Insert(Head(s), Ascending(Tail(s)))

(***************************************************************************)
(* Outcome of a call: a returned value or a raised exception.              *)
(***************************************************************************)
Returned(v) == [kind |-> "ok", val |-> v]
Raised(e) == [kind |-> e, val |-> <<>>]

(***************************************************************************)
(* TrapezoidalFuzzyNumber.__init__: the four arguments are unpacked into   *)
(* the four bounds (a ValueError when there are not exactly four), then    *)
(* the ordering a1 <= a2 <= a3 <= a4 is asserted.  Nothing is sorted.      *)
(***************************************************************************)
TrapezoidalFuzzyNumber_unchecked(a) ==
    IF Len(a) # 4 THEN Raised("ValueError") ELSE Returned(a)

TrapezoidalFuzzyNumber_sorting(a) ==
    IF Len(a) # 4 THEN Raised("ValueError") ELSE Returned(Ascending(a))

TrapezoidalFuzzyNumber(a) ==
    IF Len(a) # 4 THEN Raised("ValueError")
    ELSE IF \A i \in 1..(Len(a) - 1) : RLe(a[i], a[i + 1]) THEN Returned(a)
    ELSE Raised("AssertionError")

sort(a) == Ascending(a)
sorted(a) == Ascending(a)

lower_left_bound(t) == t[1]
upper_left_bound(t) == t[2]
upper_right_bound(t) == t[3]
lower_right_bound(t) == t[4]

(***************************************************************************)
(* Classification predicates.                                              *)
(***************************************************************************)
is_near_zero(t) ==
    \/ /\ RLt(t[1], t[2]) /\ RLe(t[2], t[3]) /\ RLt(t[3], Zero) /\ RLt(Zero, t[4])
    \/ /\ RLt(t[1], t[2]) /\ RLt(t[2], Zero) /\ RLt(Zero, t[3]) /\ RLt(t[3], t[4])
    \/ /\ RLt(t[1], Zero) /\ RLe(Zero, t[2]) /\ RLt(t[2], t[3]) /\ RLt(t[3], t[4])

is_positive(t) == RLe(Zero, lower_left_bound(t))
is_negative(t) == RLe(lower_right_bound(t), Zero)

is_arbitrary_non_strict(t) ==
    RLe(lower_left_bound(t), Zero) /\ RLe(Zero, lower_right_bound(t))

is_arbitrary(t) == RLt(lower_left_bound(t), Zero) /\ RLt(Zero, lower_right_bound(t))

(***************************************************************************)
(* The derived descriptors (properties) of a number.                       *)
(***************************************************************************)
core(t) == <<upper_left_bound(t), upper_right_bound(t)>>

support(t) == <<lower_left_bound(t), lower_right_bound(t)>>

alpha_interval(t) ==
    <<RDiv(RAdd(lower_left_bound(t), RMul(R(2), upper_left_bound(t))), R(6)),
      RDiv(RAdd(lower_right_bound(t), RMul(R(2), upper_right_bound(t))), R(6))>>

ambiguity_signed_tails(t) ==
    LET s == RDiv(RSub(upper_right_bound(t), upper_left_bound(t)), R(2))
        r == RSub(lower_right_bound(t), upper_right_bound(t))
        l == RSub(upper_left_bound(t), lower_left_bound(t))
    IN  RAdd(s, RDiv(RSub(r, l), R(6)))

ambiguity(t) ==
    LET s == RDiv(RSub(upper_right_bound(t), upper_left_bound(t)), R(2))
        r == RSub(lower_right_bound(t), upper_right_bound(t))
        l == RSub(upper_left_bound(t), lower_left_bound(t))
    IN  RAdd(s, RDiv(RAdd(r, l), R(6)))

expected_interval(t) ==
    <<RMul(Frac(1, 2), RAdd(lower_left_bound(t), upper_left_bound(t))),
      RMul(Frac(1, 2), RAdd(lower_right_bound(t), upper_right_bound(t)))>>

value(t) ==
    LET start == alpha_interval(t)[1]
        end == alpha_interval(t)[2]
    IN  RAdd(end, start)

expected_value(t) ==
    LET start == expected_interval(t)[1]
        end == expected_interval(t)[2]
    IN  RDiv(RAdd(start, end), R(2))

width_reversed(t) ==
    LET start == expected_interval(t)[1]
        end == expected_interval(t)[2]
    IN  RSub(start, end)

width(t) ==
    LET start == expected_interval(t)[1]
        end == expected_interval(t)[2]
    IN  RSub(end, start)

\* All the properties of one number, read together.
properties(t) ==
    [core |-> core(t), support |-> support(t),
     alpha_interval |-> alpha_interval(t), ambiguity |-> ambiguity(t),
     expected_interval |-> expected_interval(t), value |-> value(t),
     expected_value |-> expected_value(t), width |-> width(t)]

(***************************************************************************)
(* membership_function: a chain of conditional expressions; the last       *)
(* alternative divides by a4 - a3.                                         *)
(***************************************************************************)
membership_function(t, position) ==
    IF RLt(position, lower_left_bound(t)) \/ RLt(lower_right_bound(t), position)
    THEN Returned(Zero)
    ELSE IF RLe(lower_left_bound(t), position) /\ RLt(position, upper_left_bound(t))
    THEN Returned(RDiv(RSub(position, lower_left_bound(t)),
                       RSub(upper_left_bound(t), lower_left_bound(t))))
    ELSE IF RLe(upper_left_bound(t), position) /\ RLt(position, upper_right_bound(t))
    THEN Returned(R(1))
    ELSE IF RSub(lower_right_bound(t), upper_right_bound(t)) = Zero
    THEN Raised("ZeroDivisionError")
    ELSE Returned(RDiv(RSub(lower_right_bound(t), position),
                       RSub(lower_right_bound(t), upper_right_bound(t))))

add_cross_paired(s, o) ==
    TrapezoidalFuzzyNumber(sort(<<RAdd(s[1], o[4]), RAdd(s[2], o[3]),
                                  RAdd(s[3], o[2]), RAdd(s[4], o[1])>>))

sub_index_paired(s, o) ==
    TrapezoidalFuzzyNumber(sort(<<RSub(s[1], o[1]), RSub(s[2], o[2]),
                                  RSub(s[3], o[3]), RSub(s[4], o[4])>>))

neg_unreversed(s) ==
    LET values == <<s[1], s[2], s[3], s[4]>>
        negated_values == [i \in 1..4 |-> RNeg(values[i])]
    IN  TrapezoidalFuzzyNumber(negated_values)

(***************************************************************************)
(* __add__, __sub__: the four sums (cross-differences) are sorted, then    *)
(* handed to the constructor.  __neg__: reversed and sign-flipped.         *)
(***************************************************************************)
add(s, o) ==
    TrapezoidalFuzzyNumber(sort(<<RAdd(s[1], o[1]), RAdd(s[2], o[2]),
                                  RAdd(s[3], o[3]), RAdd(s[4], o[4])>>))

sub(s, o) ==
    TrapezoidalFuzzyNumber(sort(<<RSub(s[1], o[4]), RSub(s[2], o[3]),
                                  RSub(s[3], o[2]), RSub(s[4], o[1])>>))

neg(s) ==
    LET values == <<s[4], s[3], s[2], s[1]>>
        negated_values == [i \in 1..4 |-> RNeg(values[i])]
    IN  TrapezoidalFuzzyNumber(negated_values)

(***************************************************************************)
(* The four number-by-number multiplication routines.  Each yields the     *)
(* number of the if-branch it took (0 when it has none) and the outcome    *)
(* of the constructor call of that branch.                                 *)
(***************************************************************************)
Took(b, r) == [branch |-> b, res |-> r]

arbitrary_multiplication_inner2(s, o) ==
    LET a1 == s[1]  a2 == s[2]  a3 == s[3]  a4 == s[4]
        b1 == o[1]  b2 == o[2]  b3 == o[3]  b4 == o[4]
    IN  Took(0, TrapezoidalFuzzyNumber(<<
            Min4(RMul(a1, b1), RMul(a1, b4), RMul(a4, b1), RMul(a4, b4)),
            Min2(RMul(a2, b2), RMul(a3, b3)),
            Max2(RMul(a2, b2), RMul(a3, b3)),
            Max4(RMul(a1, b1), RMul(a1, b4), RMul(a4, b1), RMul(a4, b4))>>))

arbitrary_multiplication(s, o) ==
    LET a1 == s[1]  a2 == s[2]  a3 == s[3]  a4 == s[4]
        b1 == o[1]  b2 == o[2]  b3 == o[3]  b4 == o[4]
    IN  Took(0, TrapezoidalFuzzyNumber(<<
            Min4(RMul(a1, b1), RMul(a1, b4), RMul(a4, b1), RMul(a4, b4)),
            Min4(RMul(a2, b2), RMul(a2, b3), RMul(a3, b2), RMul(a3, b3)),
            Max4(RMul(a2, b2), RMul(a2, b3), RMul(a3, b2), RMul(a3, b3)),
            Max4(RMul(a1, b1), RMul(a1, b4), RMul(a4, b1), RMul(a4, b4))>>))

restricted_multiplication_unswapped(s, o) ==
    LET a1 == s[1]  a2 == s[2]  a3 == s[3]  a4 == s[4]
        b1 == o[1]  b2 == o[2]  b3 == o[3]  b4 == o[4]
    IN  IF is_positive(s) /\ is_positive(o) THEN
            Took(1, TrapezoidalFuzzyNumber(
                <<RMul(a1, b1), RMul(a2, b2), RMul(a3, b3), RMul(a4, b4)>>))
        ELSE IF is_negative(s) /\ is_negative(o) THEN
            Took(2, TrapezoidalFuzzyNumber(
                <<RMul(a4, b4), RMul(a3, b3), RMul(a2, b2), RMul(a1, b1)>>))
        ELSE IF is_positive(s) /\ is_negative(o) THEN
            Took(3, TrapezoidalFuzzyNumber(
                <<RMul(a4, b1), RMul(a3, b2), RMul(a2, b3), RMul(a1, b4)>>))
        ELSE IF is_negative(s) /\ is_positive(o) THEN
            Took(4, TrapezoidalFuzzyNumber(
                <<RMul(a1, b1), RMul(a2, b2), RMul(a3, b3), RMul(a4, b4)>>))
        ELSE Took(5, Raised("None"))

restricted_multiplication_index_paired(s, o) ==
    Took(1, TrapezoidalFuzzyNumber(
        <<RMul(s[1], o[1]), RMul(s[2], o[2]),
          RMul(s[3], o[3]), RMul(s[4], o[4])>>))

restricted_multiplication(s, o) ==
    LET a1 == s[1]  a2 == s[2]  a3 == s[3]  a4 == s[4]
        b1 == o[1]  b2 == o[2]  b3 == o[3]  b4 == o[4]
    IN  IF is_positive(s) /\ is_positive(o) THEN
            Took(1, TrapezoidalFuzzyNumber(
                <<RMul(a1, b1), RMul(a2, b2), RMul(a3, b3), RMul(a4, b4)>>))
        ELSE IF is_negative(s) /\ is_negative(o) THEN
            Took(2, TrapezoidalFuzzyNumber(
                <<RMul(a4, b4), RMul(a3, b3), RMul(a2, b2), RMul(a1, b1)>>))
        ELSE IF is_positive(s) /\ is_negative(o) THEN
            Took(3, TrapezoidalFuzzyNumber(
                <<RMul(a4, b1), RMul(a3, b2), RMul(a2, b3), RMul(a1, b4)>>))
        ELSE IF is_negative(s) /\ is_positive(o) THEN
            Took(4, TrapezoidalFuzzyNumber(
                <<RMul(a1, b4), RMul(a2, b3), RMul(a3, b2), RMul(a4, b1)>>))
        ELSE Took(5, Raised("None"))

semi_restricted_multiplication_core_swapped(s, o) ==
    LET a1 == s[1]  a2 == s[2]  a3 == s[3]  a4 == s[4]
        b1 == o[1]  b2 == o[2]  b3 == o[3]  b4 == o[4]
    IN  IF is_positive(s) /\ is_arbitrary(o) THEN
            Took(1, TrapezoidalFuzzyNumber(<<
                Min2(RMul(a1, b1), RMul(a4, b1)),
                Min2(RMul(a2, b3), RMul(a3, b3)),
                Max2(RMul(a2, b2), RMul(a3, b2)),
                Max2(RMul(a1, b4), RMul(a4, b4))>>))
        ELSE IF is_negative(s) /\ is_arbitrary(o) THEN
            Took(2, TrapezoidalFuzzyNumber(<<
                Min2(RMul(a1, b4), RMul(a4, b4)),
                Min2(RMul(a2, b3), RMul(a3, b3)),
                Max2(RMul(a3, b2), RMul(a2, b2)),
                Max2(RMul(a4, b1), RMul(a1, b1))>>))
        ELSE IF is_arbitrary(s) /\ is_positive(o) THEN
            Took(3, TrapezoidalFuzzyNumber(<<
                Min2(RMul(a1, b1), RMul(a1, b4)),
                Min2(RMul(a2, b2), RMul(a2, b3)),
                Max2(RMul(a3, b2), RMul(a3, b3)),
                Max2(RMul(a4, b1), RMul(a4, b4))>>))
        ELSE IF is_arbitrary(s) /\ is_negative(o) THEN
            Took(4, TrapezoidalFuzzyNumber(<<
                Min2(RMul(a4, b1), RMul(a4, b4)),
                Min2(RMul(a3, b2), RMul(a3, b3)),
                Max2(RMul(a2, b3), RMul(a2, b2)),
                Max2(RMul(a1, b4), RMul(a1, b1))>>))
        ELSE Took(5, Raised("ValueError"))

semi_restricted_multiplication(s, o) ==
    LET a1 == s[1]  a2 == s[2]  a3 == s[3]  a4 == s[4]
        b1 == o[1]  b2 == o[2]  b3 == o[3]  b4 == o[4]
    IN  IF is_positive(s) /\ is_arbitrary(o) THEN
            Took(1, TrapezoidalFuzzyNumber(<<
                Min2(RMul(a1, b1), RMul(a4, b1)),
                Min2(RMul(a2, b2), RMul(a3, b2)),
                Max2(RMul(a2, b3), RMul(a3, b3)),
                Max2(RMul(a1, b4), RMul(a4, b4))>>))
        ELSE IF is_negative(s) /\ is_arbitrary(o) THEN
            Took(2, TrapezoidalFuzzyNumber(<<
                Min2(RMul(a1, b4), RMul(a4, b4)),
                Min2(RMul(a2, b3), RMul(a3, b3)),
                Max2(RMul(a3, b2), RMul(a2, b2)),
                Max2(RMul(a4, b1), RMul(a1, b1))>>))
        ELSE IF is_arbitrary(s) /\ is_positive(o) THEN
            Took(3, TrapezoidalFuzzyNumber(<<
                Min2(RMul(a1, b1), RMul(a1, b4)),
                Min2(RMul(a2, b2), RMul(a2, b3)),
                Max2(RMul(a3, b2), RMul(a3, b3)),
                Max2(RMul(a4, b1), RMul(a4, b4))>>))
        ELSE IF is_arbitrary(s) /\ is_negative(o) THEN
            Took(4, TrapezoidalFuzzyNumber(<<
                Min2(RMul(a4, b1), RMul(a4, b4)),
                Min2(RMul(a3, b2), RMul(a3, b3)),
                Max2(RMul(a2, b3), RMul(a2, b2)),
                Max2(RMul(a1, b4), RMul(a1, b1))>>))
        ELSE Took(5, Raised("ValueError"))

semi_restricted_with_near_zero_multiplication(s, o) ==
    LET a1 == s[1]  a2 == s[2]  a3 == s[3]  a4 == s[4]
        b1 == o[1]  b2 == o[2]  b3 == o[3]  b4 == o[4]
    IN  IF /\ RLt(a1, a2) /\ RLt(a2, a3) /\ RLe(a3, Zero) /\ RLe(Zero, a4)
           /\ is_arbitrary(o) THEN
            Took(1, TrapezoidalFuzzyNumber(<<
                Min2(RMul(a1, b4), RMul(a4, b1)),
                Min2(RMul(a2, b3), RMul(a3, b3)),
                Max2(RMul(a3, b2), RMul(a2, b2)),
                Max2(RMul(a4, b4), RMul(a1, b1))>>))
        ELSE IF /\ RLt(a1, a2) /\ RLe(a2, Zero) /\ RLe(Zero, a3) /\ RLt(a3, a4)
                /\ is_arbitrary(o) THEN
            Took(2, TrapezoidalFuzzyNumber(<<
                Min2(RMul(a1, b4), RMul(a4, b1)),
                Min2(RMul(a2, b3), RMul(a3, b2)),
                Max2(RMul(a2, b2), RMul(a3, b3)),
                Max2(RMul(a4, b4), RMul(a1, b1))>>))
        ELSE IF /\ RLe(a1, Zero) /\ RLe(Zero, a2) /\ RLt(a2, a3) /\ RLt(a3, a4)
                /\ is_arbitrary(o) THEN
            Took(3, TrapezoidalFuzzyNumber(<<
                Min2(RMul(a1, b4), RMul(a4, b1)),
                Min2(RMul(a2, b3), RMul(a3, b2)),
                Max2(RMul(a2, b3), RMul(a3, b3)),
                Max2(RMul(a4, b4), RMul(a1, b1))>>))
        ELSE IF /\ is_arbitrary(s)
                /\ RLt(b1, b2) /\ RLt(b2, b3) /\ RLe(b3, Zero) /\ RLe(Zero, b4) THEN
            Took(4, TrapezoidalFuzzyNumber(<<
                Min2(RMul(a4, b1), RMul(a1, b4)),
                Min2(RMul(a3, b2), RMul(a3, b3)),
                Max2(RMul(a2, b3), RMul(a2, b2)),
                Max2(RMul(a1, b1), RMul(a4, b4))>>))
        ELSE IF /\ is_arbitrary(s)
                /\ RLt(b1, b2) /\ RLe(b2, Zero) /\ RLe(Zero, b3) /\ RLt(b3, b4) THEN
            Took(5, TrapezoidalFuzzyNumber(<<
                Min2(RMul(a4, b1), RMul(a1, b4)),
                Min2(RMul(a3, b2), RMul(a2, b3)),
                Max2(RMul(a2, b2), RMul(a3, b3)),
                Max2(RMul(a1, b1), RMul(a4, b4))>>))
        ELSE IF /\ is_arbitrary(s)
                /\ RLe(b1, Zero) /\ RLe(Zero, b2) /\ RLt(b2, b3) /\ RLt(b3, b4) THEN
            Took(6, TrapezoidalFuzzyNumber(<<
                Min2(RMul(a4, b1), RMul(a1, b4)),
                Min2(RMul(a2, b2), RMul(a2, b3)),
                Max2(RMul(a3, b2), RMul(a3, b3)),
                Max2(RMul(a1, b1), RMul(a4, b4))>>))
        ELSE Took(7, Raised("ValueError"))

(***************************************************************************)
(* __rmul__: the dispatch of number-by-number multiplication.  The outcome *)
(* names the routine that was called ("raise" when none was).              *)
(***************************************************************************)
Called(name, t) == [routine |-> name, branch |-> t.branch, res |-> t.res]

rmul_without_semi_restricted(s, o) ==
    IF is_arbitrary(s) /\ is_arbitrary(o) THEN
        Called("arbitrary_multiplication", arbitrary_multiplication(s, o))
    ELSE IF \/ is_positive(s) /\ is_positive(o)
            \/ is_negative(s) /\ is_negative(o)
            \/ is_positive(s) /\ is_negative(o)
            \/ is_negative(s) /\ is_positive(o) THEN
        Called("restricted_multiplication", restricted_multiplication(s, o))
    ELSE IF \/ is_near_zero(s) /\ is_arbitrary(o)
            \/ is_arbitrary(s) /\ is_near_zero(o) THEN
        Called("semi_restricted_with_near_zero_multiplication",
               semi_restricted_with_near_zero_multiplication(s, o))
    ELSE Called("raise", Took(0, Raised("ValueError")))

rmul_by_left_operand(s, o) ==
    IF is_positive(s) /\ is_negative(o) THEN
        Called("restricted_multiplication",
               Took(3, TrapezoidalFuzzyNumber(
                   <<RMul(s[1], o[1]), RMul(s[2], o[2]),
                     RMul(s[3], o[3]), RMul(s[4], o[4])>>)))
    ELSE Called("arbitrary_multiplication", arbitrary_multiplication(s, o))

rmul(s, o) ==
    IF is_arbitrary(s) /\ is_arbitrary(o) THEN
        Called("arbitrary_multiplication", arbitrary_multiplication(s, o))
    ELSE IF \/ is_positive(s) /\ is_positive(o)
            \/ is_negative(s) /\ is_negative(o)
            \/ is_positive(s) /\ is_negative(o)
            \/ is_negative(s) /\ is_positive(o) THEN
        Called("restricted_multiplication", restricted_multiplication(s, o))
    ELSE IF \/ is_arbitrary(s) /\ (is_positive(o) \/ is_negative(o))
            \/ is_arbitrary(o) /\ (is_positive(s) \/ is_negative(s)) THEN
        Called("semi_restricted_multiplication",
               semi_restricted_multiplication(s, o))
    ELSE IF \/ is_near_zero(s) /\ is_arbitrary(o)
            \/ is_arbitrary(s) /\ is_near_zero(o) THEN
        Called("semi_restricted_with_near_zero_multiplication",
               semi_restricted_with_near_zero_multiplication(s, o))
    ELSE Called("raise", Took(0, Raised("ValueError")))

mul_scalar_without_min_max(s, k) ==
    IF k.ty = "float" THEN
        TrapezoidalFuzzyNumber(<<RMul(k.v, s[1]), RMul(k.v, s[2]),
                                 RMul(k.v, s[3]), RMul(k.v, s[4])>>)
    ELSE Raised("TypeError")

(***************************************************************************)
(* __mul__ with a scalar: only a Python float is accepted as the scalar;   *)
(* a number operand is handed to __rmul__ (see the action Mul).            *)
(***************************************************************************)
mul_scalar(s, k) ==
    IF k.ty = "float" THEN
        TrapezoidalFuzzyNumber(<<
            Min2(RMul(k.v, s[1]), RMul(k.v, s[4])),
            Min2(RMul(k.v, s[2]), RMul(k.v, s[3])),
            Max2(RMul(k.v, s[2]), RMul(k.v, s[3])),
            Max2(RMul(k.v, s[1]), RMul(k.v, s[4]))>>)
    ELSE Raised("TypeError")

(***************************************************************************)
(* k * A with the scalar on the left: the scalar's own multiplication does *)
(* not know the number, so Python calls A.__rmul__(k).  __rmul__ reads the *)
(* classification properties of its argument, which a scalar does not      *)
(* have: the first such read raises AttributeError.                        *)
(***************************************************************************)
rmul_scalar(s, k) ==
    IF is_arbitrary(s) THEN Raised("AttributeError")
    ELSE IF is_positive(s) THEN Raised("AttributeError")
    ELSE IF is_negative(s) THEN Raised("AttributeError")
    ELSE Raised("AttributeError")

(***************************************************************************)
(* __truediv__ of a number by a number, and __rtruediv__ of a scalar by a  *)
(* number.                                                                 *)
(***************************************************************************)
truediv_without_divisor_check(s, o) ==
    IF ~is_positive(s) THEN Raised("AssertionError")
    ELSE IF \E i \in 1..4 : o[i] = Zero THEN Raised("ZeroDivisionError")
    ELSE TrapezoidalFuzzyNumber(sorted(<<RDiv(s[1], o[4]), RDiv(s[2], o[3]),
                                         RDiv(s[3], o[2]), RDiv(s[4], o[1])>>))

truediv_index_paired(s, o) ==
    IF ~is_positive(s) THEN Raised("AssertionError")
    ELSE IF ~(\A i \in 1..4 : RLt(Zero, o[i])) THEN Raised("AssertionError")
    ELSE TrapezoidalFuzzyNumber(sorted(<<RDiv(s[1], o[1]), RDiv(s[2], o[2]),
                                         RDiv(s[3], o[3]), RDiv(s[4], o[4])>>))

truediv(s, o) ==
    IF ~is_positive(s) THEN Raised("AssertionError")
    ELSE IF ~(\A i \in 1..4 : RLt(Zero, o[i])) THEN Raised("AssertionError")
    ELSE TrapezoidalFuzzyNumber(sorted(<<RDiv(s[1], o[4]), RDiv(s[2], o[3]),
                                         RDiv(s[3], o[2]), RDiv(s[4], o[1])>>))

rtruediv_unreversed(s, k) ==
    IF ~RLt(Zero, k.v) THEN Raised("AssertionError")
    ELSE IF \E i \in 1..4 : s[i] = Zero THEN Raised("ZeroDivisionError")
    ELSE TrapezoidalFuzzyNumber(<<RDiv(k.v, s[1]), RDiv(k.v, s[2]),
                                  RDiv(k.v, s[3]), RDiv(k.v, s[4])>>)

rtruediv(s, k) ==
    IF ~RLt(Zero, k.v) THEN Raised("AssertionError")
    ELSE IF \E i \in 1..4 : s[i] = Zero THEN Raised("ZeroDivisionError")
    ELSE TrapezoidalFuzzyNumber(<<RDiv(k.v, s[4]), RDiv(k.v, s[3]),
                                  RDiv(k.v, s[2]), RDiv(k.v, s[1])>>)

(***************************************************************************)
(* measure_ambiguity: a tuple per table of the ambiguities of its rows.    *)
(* Every row is handed to the constructor, tables and rows in their order; *)
(* the first row the constructor rejects ends the call with its exception. *)
(* The ambiguity of int or float boundaries is a float, so the closing     *)
(* assertion on the types of the results holds.                            *)
(***************************************************************************)
RECURSIVE Flatten(_)
Flatten(c) == IF c = <<>> THEN <<>> ELSE Head(c) \o Flatten(Tail(c))

measure_ambiguity_skipping_rows(c) ==
    LET Accepted(row) == TrapezoidalFuzzyNumber(row).kind = "ok"
    IN  Returned([j \in 1..Len(c) |->
                     LET kept == SelectSeq(c[j], Accepted)
                     IN  [i \in 1..Len(kept) |-> ambiguity(kept[i])]])

measure_ambiguity_reversing_rows(c) ==
    LET rows == Flatten(c)
        rejected == {i \in 1..Len(rows) :
                        TrapezoidalFuzzyNumber(rows[i]).kind # "ok"}
    IN  IF rejected # {}
        THEN TrapezoidalFuzzyNumber(
                 rows[CHOOSE i \in rejected : \A j \in rejected : i <= j])
        ELSE Returned([j \in 1..Len(c) |->
                         [i \in 1..Len(c[j]) |->
                             ambiguity(c[j][Len(c[j]) + 1 - i])]])

measure_ambiguity(c) ==
    LET rows == Flatten(c)
        rejected == {i \in 1..Len(rows) :
                        TrapezoidalFuzzyNumber(rows[i]).kind # "ok"}
    IN  IF rejected # {}
        THEN TrapezoidalFuzzyNumber(
                 rows[CHOOSE i \in rejected : \A j \in rejected : i <= j])
        ELSE Returned([j \in 1..Len(c) |->
                         [i \in 1..Len(c[j]) |->
                             ambiguity(TrapezoidalFuzzyNumber(c[j][i]).val)]])

(***************************************************************************)
(* The permutation testers.  Both start with the assertion that exactly    *)
(* two arguments were given.                                               *)
(***************************************************************************)
None == <<>>

RAbs(q) == IF RLt(q, Zero) THEN RNeg(q) ELSE q

RECURSIVE sum(_)
sum(x) == IF x = <<>> THEN Zero ELSE RAdd(Head(x), sum(Tail(x)))

AtLeastTwo(a) == Len(a) >= 2

ExactlyTwo(a) == Len(a) = 2

\* The statistic of the independent test, lambda x, y:
\* 1 / len(x) * sum(x) - 1 / len(y) * sum(y).
independent_algo(x, y) ==
    IF Len(x) = 0 \/ Len(y) = 0 THEN Raised("ZeroDivisionError")
    ELSE Returned(RSub(RMul(RDiv(R(1), R(Len(x))), sum(x)),
                       RMul(RDiv(R(1), R(Len(y))), sum(y))))

concat_w_reversed(a) == a[2] \o a[1]

\* np.concatenate(args) of the two samples.
concat_w(a) == a[1] \o a[2]

\* np.random.permutation(concat_w): any rearrangement of the pooled values.
permutation(w) ==
    {[i \in 1..Len(w) |-> w[f[i]]] : f \in Permutations(1..Len(w))}

\* The two slices of a permutation handed to the statistic:
\* permute_w[len(permute_w) // 2 + 1:] and permute_w[: len(permute_w) // 2].
first_group(w) == SubSeq(w, (Len(w) \div 2) + 2, Len(w))
second_group(w) == SubSeq(w, 1, Len(w) \div 2)

\* tuple(x - y for x, y in zip(*args)): zip stops at the shorter sample.
concat_z(a) ==
    LET n == IF Len(a[1]) < Len(a[2]) THEN Len(a[1]) ELSE Len(a[2])
    IN  [i \in 1..n |-> RSub(a[1][i], a[2][i])]

\* One random.choice([-1, 1]) per pair difference.
choices(z) == [1..Len(z) -> {-1, 1}]

dependent_algo_unsigned(z, c) == sum(z)

\* sum([random.choice([-1, 1]) * value for value in concat_z])
dependent_algo(z, c) == sum([i \in 1..Len(z) |-> RMul(R(c[i]), z[i])])

(***************************************************************************)
(* The inputs: every ordered 4-tuple of integers of magnitude at most      *)
(* MaxVal, together with the operands used by the test suite; scalars of   *)
(* both Python numeric types; raw constructor argument lists.              *)
(***************************************************************************)
Values == (-MaxVal)..MaxVal

Lift(t) == [i \in 1..Len(t) |-> R(t[i])]

TestNumbers ==
    {<<1, 2, 3, 4>>, <<2, 3, 4, 5>>, <<1, 2, 4, 5>>, <<-6, -4, 6, 7>>,
     <<-11, -7, -4, -2>>, <<-1, 4, 5, 7>>, <<-4, -2, 1, 3>>, <<-5, 2, 4, 7>>}

Numbers ==
    {Lift(t) : t \in {u \in Values \X Values \X Values \X Values :
                        u[1] <= u[2] /\ u[2] <= u[3] /\ u[3] <= u[4]}
                     \cup TestNumbers}

Scalars == [ty : {"int", "float"}, v : {R(k) : k \in (-MaxScalar)..MaxScalar}]

RawArgs == UNION {[1..n -> {R(v) : v \in 1..MaxRaw}] : n \in 0..MaxArgs}

\* Ambiguity samples, pairs of samples and argument lists of the testers.
Samples == UNION {[1..n -> {R(v) : v \in 0..MaxSample}] : n \in 0..MaxLen}

Pairs == {a \in Samples \X Samples : Len(a[1]) + Len(a[2]) <= MaxPool}

TesterInputs ==
    {<<>>} \cup {<<x>> : x \in Samples} \cup Pairs
    \cup {[i \in 1..n |-> x] : x \in Samples, n \in 3..MaxArity}

\* The arguments the tester receives in *args.
TesterArgs == IF packed THEN <<samples>> ELSE samples

\* Rows of the tables: rows the constructor accepts, and rows with too few
\* values, too many values or values out of order.
TestRows ==
    {<<1, 2, 3, 4>>, <<0, 1, 3, 3>>, <<2, 2, 2, 2>>,
     <<4, 3, 2, 1>>, <<1, 2, 3>>, <<1, 2, 3, 4, 5>>}

Rows == {Lift(r) : r \in TestRows}

\* The tables of at most n rows.
TablesUpTo(n) == UNION {[1..m -> Rows] : m \in 0..n}

\* The collections of t tables with at most n rows in all.
RECURSIVE CollectionsOf(_, _)
CollectionsOf(t, n) ==
    IF t = 0 THEN {<<>>}
    ELSE UNION {{<<table>> \o c : c \in CollectionsOf(t - 1, n - Len(table))} :
                   table \in TablesUpTo(n)}

Collections == UNION {CollectionsOf(t, MaxRows) : t \in 0..MaxTables}

NoNumber == <<>>
NoScalar == [ty |-> "none", v |-> Zero]

\* The program's inputs are fixed at the start: two numbers, one number, one
\* number and a scalar, or a raw constructor argument list.
\* A tester is called with two samples, with the pair of samples as a single
\* argument, or with another number of arguments.  The extractor is called
\* with a collection of tables.
Init ==
    /\ routine = "none"
    /\ branch = 0
    /\ result = Raised("none")
    /\ t_0 = None /\ concat = <<>> /\ counter_d = 0 /\ iteration = 0
    /\ draw = <<>> /\ statistic = None
    /\ \/ /\ op = "start"
          /\ tester = "none" /\ packed = FALSE /\ samples = <<>> /\ pc = "idle"
          /\ tables = <<>>
          /\ \/ /\ self \in Numbers /\ other \in Numbers
                /\ number = NoScalar /\ args = <<>>
             \/ /\ self \in Numbers /\ other = NoNumber
                /\ number \in Scalars \cup {NoScalar} /\ args = <<>>
             \/ /\ self = NoNumber /\ other = NoNumber
                /\ number = NoScalar /\ args \in RawArgs
       \/ /\ op = "tester"
          /\ self = NoNumber /\ other = NoNumber
          /\ number = NoScalar /\ args = <<>>
          /\ tester \in {"independent", "dependent"}
          /\ pc = "call"
          /\ \/ samples \in TesterInputs /\ packed = FALSE
             \/ samples \in Pairs /\ packed = TRUE
          /\ tables = <<>>
       \/ /\ op = "extractor"
          /\ self = NoNumber /\ other = NoNumber
          /\ number = NoScalar /\ args = <<>>
          /\ tester = "none" /\ packed = FALSE /\ samples = <<>> /\ pc = "idle"
          /\ tables \in Collections

\* One call on the inputs: the operation and its outcome.
Call(o, r) ==
    /\ op' = o
    /\ routine' = "none"
    /\ branch' = 0
    /\ result' = r
    /\ UNCHANGED <<self, other, number, args>>
    /\ UNCHANGED tvars
    /\ UNCHANGED tables

Construct ==
    /\ op = "start" /\ self = NoNumber
    /\ Call("__init__", TrapezoidalFuzzyNumber(args))

Add ==
    /\ op = "start" /\ self # NoNumber /\ other # NoNumber
    /\ Call("__add__", add(self, other))

Sub ==
    /\ op = "start" /\ self # NoNumber /\ other # NoNumber
    /\ Call("__sub__", sub(self, other))

Neg ==
    /\ op = "start" /\ self # NoNumber /\ other = NoNumber /\ number = NoScalar
    /\ Call("__neg__", neg(self))

\* A * B: __mul__ hands a number operand to __rmul__.
Mul ==
    /\ op = "start" /\ self # NoNumber /\ other # NoNumber
    /\ LET c == rmul(self, other)
       IN  /\ op' = "__mul__"
           /\ routine' = c.routine
           /\ branch' = c.branch
           /\ result' = c.res
    /\ UNCHANGED <<self, other, number, args>>
    /\ UNCHANGED tvars
    /\ UNCHANGED tables

\* B * A, the product of the same operands in the other order.
MulCommuted ==
    /\ op = "start" /\ self # NoNumber /\ other # NoNumber
    /\ LET c == rmul(other, self)
       IN  /\ op' = "__mul__commuted"
           /\ routine' = c.routine
           /\ branch' = c.branch
           /\ result' = c.res
    /\ UNCHANGED <<self, other, number, args>>
    /\ UNCHANGED tvars
    /\ UNCHANGED tables

\* A * k with a scalar k.
MulScalar ==
    /\ op = "start" /\ self # NoNumber /\ number # NoScalar
    /\ Call("__mul__scalar", mul_scalar(self, number))

TrueDiv ==
    /\ op = "start" /\ self # NoNumber /\ other # NoNumber
    /\ Call("__truediv__", truediv(self, other))

\* k / A with a scalar k.
RTrueDiv ==
    /\ op = "start" /\ self # NoNumber /\ number # NoScalar
    /\ Call("__rtruediv__", rtruediv(self, number))

\* -(-A): the negation of the number a negation returned.
NegNeg ==
    /\ op = "__neg__" /\ result.kind = "ok"
    /\ Call("__neg__neg__", neg(result.val))

\* k * A with the scalar k on the left.
RMulScalar ==
    /\ op = "start" /\ self # NoNumber /\ number # NoScalar
    /\ Call("__rmul__scalar", rmul_scalar(self, number))

\* A.membership_function(x) at the query point x.
Membership ==
    /\ op = "start" /\ self # NoNumber /\ number # NoScalar
    /\ Call("membership_function", membership_function(self, number.v))

\* Reading the derived descriptors of A.
Properties ==
    /\ op = "start" /\ self # NoNumber /\ other = NoNumber /\ number = NoScalar
    /\ Call("properties", Returned(properties(self)))

\* TrapezoidalAmbiguityMeasurer.measure_ambiguity(tables).
MeasureAmbiguity ==
    /\ op = "extractor"
    /\ Call("measure_ambiguity", measure_ambiguity(tables))

\* A tester run leaves the number-level variables and its inputs alone.
TesterFrame ==
    UNCHANGED <<op, self, other, number, args, routine, branch,
                tester, packed, samples, tables>>

\* The tester stops with an exception.
Fail(e) ==
    /\ pc' = "raised"
    /\ result' = Raised(e)
    /\ UNCHANGED <<t_0, concat, counter_d, iteration, draw, statistic>>

\* independent_measure_data_ambiguity up to the loop: the assertion, the
\* observed statistic and the pooled sample.
IndependentBegin ==
    /\ op = "tester" /\ tester = "independent" /\ pc = "call"
    /\ TesterFrame
    /\ IF ~ExactlyTwo(TesterArgs) THEN Fail("AssertionError")
       ELSE LET t == independent_algo(TesterArgs[1], TesterArgs[2])
            IN  IF t.kind # "ok" THEN Fail(t.kind)
                ELSE /\ pc' = "loop"
                     /\ counter_d' = 0
                     /\ t_0' = t.val
                     /\ concat' = concat_w(TesterArgs)
                     /\ UNCHANGED <<result, iteration, draw, statistic>>

\* One iteration of the loop of the independent test.
IndependentResample ==
    /\ op = "tester" /\ tester = "independent" /\ pc = "loop"
    /\ iteration < K
    /\ TesterFrame
    /\ \E permute_w \in permutation(concat) :
           LET t == independent_algo(first_group(permute_w),
                                     second_group(permute_w))
           IN  IF t.kind # "ok"
               THEN /\ pc' = "raised"
                    /\ result' = Raised(t.kind)
                    /\ draw' = permute_w
                    /\ UNCHANGED <<t_0, concat, counter_d, iteration,
                                   statistic>>
               ELSE /\ draw' = permute_w
                    /\ statistic' = t.val
                    /\ counter_d' = IF RLe(RAbs(t_0), RAbs(t.val))
                                    THEN counter_d + 1 ELSE counter_d
                    /\ iteration' = iteration + 1
                    /\ UNCHANGED <<pc, result, t_0, concat>>

\* dependent_measure_data_ambiguity up to the loop: the assertion, the pair
\* differences and the observed statistic.
DependentBegin ==
    /\ op = "tester" /\ tester = "dependent" /\ pc = "call"
    /\ TesterFrame
    /\ IF ~ExactlyTwo(TesterArgs) THEN Fail("AssertionError")
       ELSE /\ pc' = "loop"
            /\ counter_d' = 0
            /\ concat' = concat_z(TesterArgs)
            /\ t_0' = sum(concat_z(TesterArgs))
            /\ UNCHANGED <<result, iteration, draw, statistic>>

\* One iteration of the loop of the dependent test.
DependentResample ==
    /\ op = "tester" /\ tester = "dependent" /\ pc = "loop"
    /\ iteration < K
    /\ TesterFrame
    /\ \E c \in choices(concat) :
           /\ draw' = c
           /\ statistic' = dependent_algo(concat, c)
           /\ counter_d' = IF RLe(RAbs(t_0), RAbs(dependent_algo(concat, c)))
                           THEN counter_d + 1 ELSE counter_d
           /\ iteration' = iteration + 1
           /\ UNCHANGED <<pc, result, t_0, concat>>

\* return counter_d / k, after the last iteration.
Return ==
    /\ op = "tester" /\ pc = "loop"
    /\ iteration = K
    /\ TesterFrame
    /\ pc' = "done"
    /\ result' = Returned(Frac(counter_d, K))
    /\ UNCHANGED <<t_0, concat, counter_d, iteration, draw, statistic>>

Next ==
    \/ Construct
    \/ Add
    \/ Sub
    \/ Neg
    \/ Mul
    \/ MulScalar
    \/ TrueDiv
    \/ RTrueDiv
    \/ NegNeg
    \/ RMulScalar
    \/ Membership
    \/ Properties
    \/ IndependentBegin
    \/ IndependentResample
    \/ DependentBegin
    \/ DependentResample
    \/ Return
    \/ MeasureAmbiguity
    \/ MulCommuted

Spec == Init /\ [][Next]_vars

(***************************************************************************)
(* Vocabulary of the properties.                                           *)
(***************************************************************************)
Ordered(t) == Len(t) = 4 /\ RLe(t[1], t[2]) /\ RLe(t[2], t[3]) /\ RLe(t[3], t[4])

\* Least and greatest element of a non-empty finite set of rationals.
Least(S) == CHOOSE x \in S : \A y \in S : RLe(x, y)
Greatest(S) == CHOOSE x \in S : \A y \in S : RLe(y, x)

Operators ==
    {"__add__", "__sub__", "__neg__", "__mul__", "__mul__scalar",
     "__truediv__", "__rtruediv__"}

TypeOK ==
    /\ op \in Operators \cup {"start", "__init__", "__neg__neg__",
                             "__rmul__scalar", "membership_function",
                             "properties", "tester", "extractor",
                             "__mul__commuted",
                             "measure_ambiguity"}
    /\ tester \in {"none", "independent", "dependent"}
    /\ pc \in {"idle", "call", "loop", "done", "raised"}
    /\ counter_d \in 0..K /\ iteration \in 0..K
    /\ result.kind \in {"ok", "none", "None", "ValueError", "AssertionError",
                        "TypeError", "ZeroDivisionError", "AttributeError"}

\* The cross-products of the outer bounds {a1, a4} x {b1, b4} and of the
\* inner bounds {a2, a3} x {b2, b3}.
Outer(s, o) == {RMul(s[i], o[j]) : i \in {1, 4}, j \in {1, 4}}
Inner(s, o) == {RMul(s[i], o[j]) : i \in {2, 3}, j \in {2, 3}}

NonDecreasing(a) == \A i \in 1..Len(a), j \in 1..Len(a) : i < j => RLe(a[i], a[j])

StrictlyPositive(t) == \A i \in 1..4 : RLt(Zero, t[i])
StrictlyNegative(t) == \A i \in 1..4 : RLt(t[i], Zero)

(***************************************************************************)
(* C1.  Ordering invariant: whenever an operator (A + B, A - B, -A, A * k, *)
(* A * B, A / B, k / A) returns a number, its boundaries satisfy           *)
(* a1 <= a2 <= a3 <= a4; otherwise the operator has failed.                *)
(***************************************************************************)
C1_OrderingInvariant ==
    (op \in Operators /\ result.kind = "ok") => Ordered(result.val)

C1_Witness ==
    /\ op = "__sub__"
    /\ result.kind = "ok"
    /\ RLt(result.val[1], result.val[4])

(***************************************************************************)
(* C2.  The constructor yields a number exactly when it is given four      *)
(* non-decreasing values, and then stores them unchanged; any other        *)
(* argument list, such as (4, 3, 2, 1), fails and is never repaired.       *)
(***************************************************************************)
C2_ConstructionContract ==
    op = "__init__" =>
        /\ (result.kind = "ok") = (Len(args) = 4 /\ NonDecreasing(args))
        /\ result.kind = "ok" => result.val = args

C2_Witness ==
    /\ op = "__init__"
    /\ args = Lift(<<4, 3, 2, 1>>)
    /\ result.kind = "AssertionError"

(***************************************************************************)
(* C3.  The product of two arbitrary numbers (a1 < 0 < a4, b1 < 0 < b4) is *)
(* computed by arbitrary multiplication and is (E, F, G, H) with E, H the  *)
(* least and greatest outer cross-product and F, G the least and greatest  *)
(* inner cross-product.                                                    *)
(***************************************************************************)
C3_ArbitraryMultiplication ==
    (op = "__mul__" /\ is_arbitrary(self) /\ is_arbitrary(other)) =>
        /\ routine = "arbitrary_multiplication"
        /\ result = Returned(<<Least(Outer(self, other)), Least(Inner(self, other)),
                               Greatest(Inner(self, other)),
                               Greatest(Outer(self, other))>>)

C3_Witness ==
    /\ op = "__mul__"
    /\ self = Lift(<<-4, -2, 1, 3>>)
    /\ other = Lift(<<-5, 2, 4, 7>>)
    /\ routine = "arbitrary_multiplication"
    /\ result = Returned(Lift(<<-28, -8, 4, 21>>))

(***************************************************************************)
(* C4.  When neither operand is arbitrary, A * B is computed by restricted *)
(* multiplication and equals the index-paired products, the index order    *)
(* being reversed for a negative operand; the products are non-decreasing  *)
(* as they stand.  (1,2,3,4) * (2,3,4,5) = (2,6,12,20).                    *)
(***************************************************************************)
C4_RestrictedMultiplication ==
    (op = "__mul__" /\ ~is_arbitrary(self) /\ ~is_arbitrary(other)) =>
        LET a == self
            b == other
        IN  /\ routine = "restricted_multiplication"
            /\ result.kind = "ok"
            /\ (is_positive(a) /\ is_positive(b)) =>
                   result.val = <<RMul(a[1], b[1]), RMul(a[2], b[2]),
                                  RMul(a[3], b[3]), RMul(a[4], b[4])>>
            /\ (is_negative(a) /\ is_negative(b)) =>
                   result.val = <<RMul(a[4], b[4]), RMul(a[3], b[3]),
                                  RMul(a[2], b[2]), RMul(a[1], b[1])>>
            /\ (is_positive(a) /\ is_negative(b)) =>
                   result.val = <<RMul(a[4], b[1]), RMul(a[3], b[2]),
                                  RMul(a[2], b[3]), RMul(a[1], b[4])>>
            /\ (is_negative(a) /\ is_positive(b)) =>
                   result.val = <<RMul(a[1], b[4]), RMul(a[2], b[3]),
                                  RMul(a[3], b[2]), RMul(a[4], b[1])>>
            /\ NonDecreasing(result.val)
            /\ (a = Lift(<<1, 2, 3, 4>>) /\ b = Lift(<<2, 3, 4, 5>>)) =>
                   result.val = Lift(<<2, 6, 12, 20>>)

C4_Witness ==
    /\ op = "__mul__"
    /\ routine = "restricted_multiplication"
    /\ StrictlyNegative(self)
    /\ StrictlyPositive(other)
    /\ result.kind = "ok"
    /\ RLt(result.val[1], result.val[2])

(***************************************************************************)
(* C5.  When exactly one operand is arbitrary and the other is positive or *)
(* negative, A * B is computed by semi-restricted multiplication, in the   *)
(* sub-case given by which operand is arbitrary and by the sign of the     *)
(* other, and the result is an ordered number.  For positive A and         *)
(* arbitrary B it is (min(a1*b1, a4*b1), min(a2*b2, a3*b2),                *)
(* max(a2*b3, a3*b3), max(a1*b4, a4*b4)), and                              *)
(* (1,2,4,5) * (-6,-4,6,7) = (-30,-16,24,35).                              *)
(***************************************************************************)
C5_SemiRestrictedMultiplication ==
    (/\ op = "__mul__"
     /\ is_arbitrary(self) # is_arbitrary(other)
     /\ \/ is_arbitrary(self) /\ (is_positive(other) \/ is_negative(other))
        \/ is_arbitrary(other) /\ (is_positive(self) \/ is_negative(self))) =>
        LET a == self
            b == other
        IN  /\ routine = "semi_restricted_multiplication"
            /\ branch \in 1..4
            /\ branch = 1 => is_positive(a) /\ is_arbitrary(b)
            /\ branch = 2 => is_negative(a) /\ is_arbitrary(b)
            /\ branch = 3 => is_arbitrary(a) /\ is_positive(b)
            /\ branch = 4 => is_arbitrary(a) /\ is_negative(b)
            /\ result.kind = "ok"
            /\ Ordered(result.val)
            /\ (is_positive(a) /\ is_arbitrary(b)) =>
                   result.val =
                       <<Least({RMul(a[1], b[1]), RMul(a[4], b[1])}),
                         Least({RMul(a[2], b[2]), RMul(a[3], b[2])}),
                         Greatest({RMul(a[2], b[3]), RMul(a[3], b[3])}),
                         Greatest({RMul(a[1], b[4]), RMul(a[4], b[4])})>>
            /\ (a = Lift(<<1, 2, 4, 5>>) /\ b = Lift(<<-6, -4, 6, 7>>)) =>
                   result.val = Lift(<<-30, -16, 24, 35>>)

C5_Witness ==
    /\ op = "__mul__"
    /\ self = Lift(<<1, 2, 4, 5>>)
    /\ other = Lift(<<-6, -4, 6, 7>>)
    /\ routine = "semi_restricted_multiplication"
    /\ branch = 1
    /\ result = Returned(Lift(<<-30, -16, 24, 35>>))

NearZeroWithArbitrary ==
    \/ is_near_zero(self) /\ is_arbitrary(other)
    \/ is_arbitrary(self) /\ is_near_zero(other)

(***************************************************************************)
(* C6.  When one operand of A * B is near-zero and the other is arbitrary, *)
(* the product is computed by the semi-restricted-with-near-zero routine   *)
(* and by no other routine.                                                *)
(***************************************************************************)
C6_NearZeroRoutine ==
    (op = "__mul__" /\ NearZeroWithArbitrary) =>
        routine = "semi_restricted_with_near_zero_multiplication"

(***************************************************************************)
(* C7.  As claimed: a near-zero number multiplied by a positive or         *)
(* negative (non-arbitrary) number, or by another near-zero number, fails  *)
(* with the unsupported-combination error and returns no number.           *)
(***************************************************************************)
C7_UnsupportedCombinationFails ==
    (/\ op = "__mul__"
     /\ \/ is_near_zero(self) /\ ~is_arbitrary(other)
        \/ is_near_zero(other) /\ ~is_arbitrary(self)
        \/ is_near_zero(self) /\ is_near_zero(other)) =>
        result.kind = "ValueError"

(***************************************************************************)
(* C7, amended.  No pair of valid numbers is an unsupported combination:   *)
(* A * B always calls one of the routines and returns a number.  A         *)
(* near-zero number with a positive or negative number is handled by       *)
(* semi-restricted multiplication, two near-zero numbers by arbitrary      *)
(* multiplication.                                                         *)
(***************************************************************************)
C7_DispatchNeverFails ==
    op = "__mul__" =>
        /\ routine # "raise"
        /\ result.kind = "ok"
        /\ (\/ is_near_zero(self) /\ ~is_arbitrary(other)
            \/ is_near_zero(other) /\ ~is_arbitrary(self)) =>
               routine = "semi_restricted_multiplication"
        /\ (is_near_zero(self) /\ is_near_zero(other)) =>
               routine = "arbitrary_multiplication"

C7_Witness ==
    /\ op = "__mul__"
    /\ self = Lift(<<-11, -7, -4, -2>>)
    /\ is_near_zero(other)
    /\ other = Lift(<<-1, 4, 5, 7>>)
    /\ result = Returned(Lift(<<-77, -35, -16, 11>>))

(***************************************************************************)
(* C8.  As claimed: A / B fails unless A is strictly positive (a1 > 0)     *)
(* and every boundary of B is strictly positive.                           *)
(***************************************************************************)
C8_DivisionNeedsStrictlyPositive ==
    (op = "__truediv__" /\ ~(StrictlyPositive(self) /\ StrictlyPositive(other))) =>
        result.kind # "ok"

(***************************************************************************)
(* C8, amended.  A / B returns a number exactly when A is non-negative     *)
(* (a1 >= 0, zero boundaries allowed) and every boundary of B is strictly  *)
(* positive; for every other operand pair it fails with an assertion       *)
(* error and returns no number.                                            *)
(***************************************************************************)
C8_DivisionDomain ==
    op = "__truediv__" =>
        /\ (result.kind = "ok") =
               (RLe(Zero, self[1]) /\ StrictlyPositive(other))
        /\ result.kind # "ok" => result = Raised("AssertionError")

C8_Witness ==
    /\ op = "__truediv__"
    /\ self[1] = Zero
    /\ RLt(Zero, self[4])
    /\ result.kind = "ok"

(***************************************************************************)
(* C9.  Whenever A / B returns a number, its boundaries are                *)
(* (a1/b4, a2/b3, a3/b2, a4/b1) in that order: the quotients are already   *)
(* ascending and sorting leaves them in place.                             *)
(* (1,2,3,4) / (2,3,4,5) = (1/5, 1/2, 1, 2).                               *)
(***************************************************************************)
C9_DivisionResult ==
    (op = "__truediv__" /\ result.kind = "ok") =>
        LET q == <<RDiv(self[1], other[4]), RDiv(self[2], other[3]),
                   RDiv(self[3], other[2]), RDiv(self[4], other[1])>>
        IN  /\ result.val = q
            /\ NonDecreasing(q)
            /\ Ascending(q) = q
            /\ (self = Lift(<<1, 2, 3, 4>>) /\ other = Lift(<<2, 3, 4, 5>>)) =>
                   result.val = <<Frac(1, 5), Frac(1, 2), R(1), R(2)>>

C9_Witness ==
    /\ op = "__truediv__"
    /\ self = Lift(<<1, 2, 3, 4>>)
    /\ other = Lift(<<2, 3, 4, 5>>)
    /\ result = Returned(<<Frac(1, 5), Frac(1, 2), R(1), R(2)>>)

(***************************************************************************)
(* C10.  As claimed: for every scalar k > 0 and every valid number A,      *)
(* k / A returns (k/a4, k/a3, k/a2, k/a1), already in ascending order.     *)
(***************************************************************************)
C10_ScalarDivisionAlwaysReturns ==
    (op = "__rtruediv__" /\ RLt(Zero, number.v)) =>
        /\ result.kind = "ok"
        /\ result.val = <<RDiv(number.v, self[4]), RDiv(number.v, self[3]),
                          RDiv(number.v, self[2]), RDiv(number.v, self[1])>>
        /\ NonDecreasing(result.val)

(***************************************************************************)
(* C10, amended.  k / A returns a number exactly when k > 0 and the        *)
(* boundaries of A are all strictly positive or all strictly negative; it  *)
(* is then (k/a4, k/a3, k/a2, k/a1), already in ascending order.  A scalar *)
(* k <= 0 is rejected with an assertion error; for k > 0, a zero boundary  *)
(* of A is a division by zero and a number with boundaries on both sides   *)
(* of zero fails the ordering check of the constructor.                    *)
(***************************************************************************)
C10_ScalarDivisionDomain ==
    op = "__rtruediv__" =>
        LET k == number.v
            a == self
        IN  /\ (result.kind = "ok") =
                   (RLt(Zero, k) /\ (StrictlyPositive(a) \/ StrictlyNegative(a)))
            /\ result.kind = "ok" =>
                   /\ result.val = <<RDiv(k, a[4]), RDiv(k, a[3]),
                                     RDiv(k, a[2]), RDiv(k, a[1])>>
                   /\ NonDecreasing(result.val)
            /\ ~RLt(Zero, k) => result = Raised("AssertionError")
            /\ (RLt(Zero, k) /\ \E i \in 1..4 : a[i] = Zero) =>
                   result = Raised("ZeroDivisionError")
            /\ (RLt(Zero, k) /\ RLt(a[1], Zero) /\ RLt(Zero, a[4])
                /\ \A i \in 1..4 : a[i] # Zero) =>
                   result = Raised("AssertionError")

C10_Witness ==
    /\ op = "__rtruediv__"
    /\ number.v = R(2)
    /\ self = Lift(<<1, 2, 3, 4>>)
    /\ result = Returned(<<Frac(1, 2), Frac(2, 3), R(1), R(2)>>)

(***************************************************************************)
(* C11.  As claimed: membership_function(x) returns a value for every      *)
(* valid number and every query point x, degenerate shapes included: 0     *)
(* when x < a1 or x > a4, (x - a1)/(a2 - a1) when a1 <= x < a2, 1 when     *)
(* a2 <= x <= a3, (a4 - x)/(a4 - a3) when a3 < x <= a4; the value lies in  *)
(* [0, 1].                                                                 *)
(***************************************************************************)
C11_MembershipEverywhere ==
    op = "membership_function" =>
        /\ result.kind = "ok"
        /\ LET x == number.v
               a == self
               mu == result.val
           IN  /\ (RLt(x, a[1]) \/ RLt(a[4], x)) => mu = Zero
               /\ (RLe(a[1], x) /\ RLt(x, a[2])) =>
                      mu = RDiv(RSub(x, a[1]), RSub(a[2], a[1]))
               /\ (RLe(a[2], x) /\ RLe(x, a[3])) => mu = R(1)
               /\ (RLt(a[3], x) /\ RLe(x, a[4])) =>
                      mu = RDiv(RSub(a[4], x), RSub(a[4], a[3]))
               /\ RLe(Zero, mu) /\ RLe(mu, R(1))

(***************************************************************************)
(* C12.  A + B is the component-wise sum (a1+b1, a2+b2, a3+b3, a4+b4) and  *)
(* the re-sorting of the sums leaves them as they are, whatever the signs  *)
(* of the operands.                                                        *)
(***************************************************************************)
C12_Addition ==
    op = "__add__" =>
        LET sums == <<RAdd(self[1], other[1]), RAdd(self[2], other[2]),
                      RAdd(self[3], other[3]), RAdd(self[4], other[4])>>
        IN  /\ result = Returned(sums)
            /\ NonDecreasing(sums)
            /\ sort(sums) = sums

C12_Witness ==
    /\ op = "__add__"
    /\ self = Lift(<<1, 2, 3, 4>>)
    /\ other = Lift(<<-6, -4, 6, 7>>)
    /\ result = Returned(Lift(<<-5, -2, 9, 11>>))

(***************************************************************************)
(* C13.  A - B is the cross-subtraction (a1-b4, a2-b3, a3-b2, a4-b1), so   *)
(* A - A = (a1-a4, a2-a3, a3-a2, a4-a1), which is (0,0,0,0) only when      *)
(* a1 = a2 = a3 = a4; (1,2,3,4) - (1,2,3,4) = (-3,-1,1,3).                 *)
(***************************************************************************)
C13_Subtraction ==
    op = "__sub__" =>
        LET a == self
            b == other
        IN  /\ result = Returned(<<RSub(a[1], b[4]), RSub(a[2], b[3]),
                                   RSub(a[3], b[2]), RSub(a[4], b[1])>>)
            /\ a = b =>
                   /\ result.val = <<RSub(a[1], a[4]), RSub(a[2], a[3]),
                                     RSub(a[3], a[2]), RSub(a[4], a[1])>>
                   /\ (result.val = <<Zero, Zero, Zero, Zero>>) =
                          (a[1] = a[2] /\ a[2] = a[3] /\ a[3] = a[4])
            /\ (a = Lift(<<1, 2, 3, 4>>) /\ b = a) =>
                   result.val = Lift(<<-3, -1, 1, 3>>)

C13_Witness ==
    /\ op = "__sub__"
    /\ self = Lift(<<1, 2, 3, 4>>)
    /\ other = self
    /\ result = Returned(Lift(<<-3, -1, 1, 3>>))

(***************************************************************************)
(* C14.  -A = (-a4, -a3, -a2, -a1) for every valid A, negation always      *)
(* succeeds, and negating twice gives back the boundaries of A.            *)
(***************************************************************************)
C14_Negation ==
    /\ op = "__neg__" =>
           result = Returned(<<RNeg(self[4]), RNeg(self[3]),
                               RNeg(self[2]), RNeg(self[1])>>)
    /\ op = "__neg__neg__" => result = Returned(self)

C14_Witness ==
    /\ op = "__neg__neg__"
    /\ self = Lift(<<-1, 4, 5, 7>>)
    /\ result = Returned(self)

\* The claimed product of A by the scalar value k.
ScalarProduct(a, k) ==
    <<Min2(RMul(k, a[1]), RMul(k, a[4])), Min2(RMul(k, a[2]), RMul(k, a[3])),
      Max2(RMul(k, a[2]), RMul(k, a[3])), Max2(RMul(k, a[1]), RMul(k, a[4]))>>

(***************************************************************************)
(* C15.  As claimed: A * k for a number k of any sign returns              *)
(* (min(k*a1, k*a4), min(k*a2, k*a3), max(k*a2, k*a3), max(k*a1, k*a4)),   *)
(* whatever kind of number k is; e.g. (1,2,3,4) * 2 = (2,4,6,8).           *)
(***************************************************************************)
C15_ScalarMultiplication ==
    op = "__mul__scalar" =>
        /\ result = Returned(ScalarProduct(self, number.v))
        /\ (self = Lift(<<1, 2, 3, 4>>) /\ number.v = R(2)) =>
               result = Returned(Lift(<<2, 4, 6, 8>>))

(***************************************************************************)
(* C15, amended.  A * k for a float k of any sign returns the min/max      *)
(* tuple above: (k*a4, k*a3, k*a2, k*a1) for k < 0 and                     *)
(* (k*a1, k*a2, k*a3, k*a4) for k >= 0, e.g. (1,2,3,4) * 2.0 = (2,4,6,8).  *)
(* A scalar that is not a float, such as the int 2, is rejected with a     *)
(* type error.                                                             *)
(***************************************************************************)
C15_FloatScalarMultiplication ==
    op = "__mul__scalar" =>
        LET a == self
            k == number.v
        IN  /\ number.ty = "float" =>
                   /\ result = Returned(ScalarProduct(a, k))
                   /\ RLt(k, Zero) =>
                          result.val = <<RMul(k, a[4]), RMul(k, a[3]),
                                         RMul(k, a[2]), RMul(k, a[1])>>
                   /\ RLe(Zero, k) =>
                          result.val = <<RMul(k, a[1]), RMul(k, a[2]),
                                         RMul(k, a[3]), RMul(k, a[4])>>
                   /\ (a = Lift(<<1, 2, 3, 4>>) /\ k = R(2)) =>
                          result.val = Lift(<<2, 4, 6, 8>>)
            /\ number.ty # "float" => result = Raised("TypeError")

C15_Witness ==
    /\ op = "__mul__scalar"
    /\ number = [ty |-> "float", v |-> R(-2)]
    /\ self = Lift(<<1, 2, 3, 4>>)
    /\ result = Returned(Lift(<<-8, -6, -4, -2>>))

(***************************************************************************)
(* C16.  As claimed: for every valid A and every scalar k > 0, the product *)
(* k * A with the scalar on the left is a number whose ambiguity is k      *)
(* times the ambiguity of A.                                               *)
(***************************************************************************)
C16_ScalarLinearity ==
    (op = "__rmul__scalar" /\ RLt(Zero, number.v)) =>
        /\ result.kind = "ok"
        /\ Ordered(result.val)
        /\ ambiguity(result.val) = RMul(number.v, ambiguity(self))

(***************************************************************************)
(* C17.  ambiguity = (a3 - a2)/2 + ((a4 - a3) + (a2 - a1))/6, that is      *)
(* 6 * ambiguity = 3(a3 - a2) + (a4 - a3) + (a2 - a1); it is never         *)
(* negative and is 0 exactly when a1 = a2 = a3 = a4; the ambiguity of      *)
(* (1,2,3,4) is 5/6.                                                       *)
(***************************************************************************)
C17_Ambiguity ==
    op = "properties" =>
        LET a == self
            amb == result.val.ambiguity
        IN  /\ amb = RAdd(RDiv(RSub(a[3], a[2]), R(2)),
                          RDiv(RAdd(RSub(a[4], a[3]), RSub(a[2], a[1])), R(6)))
            /\ RMul(R(6), amb) =
                   RAdd(RMul(R(3), RSub(a[3], a[2])),
                        RAdd(RSub(a[4], a[3]), RSub(a[2], a[1])))
            /\ RLe(Zero, amb)
            /\ (amb = Zero) = (a[1] = a[2] /\ a[2] = a[3] /\ a[3] = a[4])
            /\ a = Lift(<<1, 2, 3, 4>>) => amb = Frac(5, 6)

C17_Witness ==
    /\ op = "properties"
    /\ self = Lift(<<1, 2, 3, 4>>)
    /\ result.val.ambiguity = Frac(5, 6)

(***************************************************************************)
(* C18.  core = (a2, a3), support = (a1, a4), expected_interval =          *)
(* ((a1+a2)/2, (a3+a4)/2), expected_value = its midpoint =                 *)
(* (a1+a2+a3+a4)/4, width = its span = (a3+a4-a1-a2)/2 >= 0, and the core  *)
(* lies inside the support.                                                *)
(***************************************************************************)
C18_Descriptors ==
    op = "properties" =>
        LET a == self
            d == result.val
        IN  /\ d.core = <<a[2], a[3]>>
            /\ d.support = <<a[1], a[4]>>
            /\ d.expected_interval = <<RDiv(RAdd(a[1], a[2]), R(2)),
                                       RDiv(RAdd(a[3], a[4]), R(2))>>
            /\ d.expected_value =
                   RDiv(RAdd(d.expected_interval[1], d.expected_interval[2]),
                        R(2))
            /\ d.expected_value =
                   RDiv(RAdd(RAdd(a[1], a[2]), RAdd(a[3], a[4])), R(4))
            /\ d.width = RSub(d.expected_interval[2], d.expected_interval[1])
            /\ d.width =
                   RDiv(RSub(RAdd(a[3], a[4]), RAdd(a[1], a[2])), R(2))
            /\ RLe(Zero, d.width)
            /\ RLe(d.support[1], d.core[1]) /\ RLe(d.core[1], d.core[2])
            /\ RLe(d.core[2], d.support[2])

C18_Witness ==
    /\ op = "properties"
    /\ self = Lift(<<-6, -4, 6, 7>>)
    /\ result.val.core = Lift(<<-4, 6>>)
    /\ result.val.width = Frac(23, 2)

(***************************************************************************)
(* C19.  Both testers require exactly two samples: a call with any other   *)
(* number of arguments, a single argument holding a pair of samples        *)
(* included, fails at once with an assertion error, before the observed    *)
(* statistic or any resample is computed, and returns no p-value.          *)
(***************************************************************************)
C19_ExactlyTwoSamples ==
    (op = "tester" /\ pc # "call" /\ Len(TesterArgs) # 2) =>
        /\ pc = "raised"
        /\ result = Raised("AssertionError")
        /\ t_0 = None /\ concat = <<>>
        /\ iteration = 0 /\ statistic = None /\ draw = <<>>

C19_Witness ==
    /\ op = "tester"
    /\ tester = "independent"
    /\ packed
    /\ samples = <<<<R(0), R(1)>>, <<R(1), R(1)>>>>
    /\ pc = "raised"
    /\ result = Raised("AssertionError")

(***************************************************************************)
(* C20.  As claimed: the dependent test called with two samples of         *)
(* different lengths fails at once with an error and returns no p-value.   *)
(***************************************************************************)
C20_UnequalLengthsRejected ==
    (/\ op = "tester" /\ tester = "dependent" /\ pc # "call"
     /\ Len(TesterArgs) = 2
     /\ Len(TesterArgs[1]) # Len(TesterArgs[2])) =>
        /\ pc = "raised"
        /\ result.kind \notin {"ok", "none"}
        /\ iteration = 0

\* A tester called with exactly two samples, past its first statement.
RunOf(name) ==
    /\ op = "tester" /\ tester = name /\ pc # "call"
    /\ ~packed /\ Len(samples) = 2

(***************************************************************************)
(* C21.  As claimed: for every non-empty sample X the independent test of  *)
(* X against X has observed statistic 0, every resample counts as a hit    *)
(* whatever permutation is drawn, and the returned p-value is exactly 1.   *)
(***************************************************************************)
C21_IdenticalSamples ==
    (/\ RunOf("independent")
     /\ samples[1] = samples[2]
     /\ Len(samples[1]) >= 1) =>
        /\ pc # "raised"
        /\ t_0 = Zero
        /\ counter_d = iteration
        /\ pc = "done" => result = Returned(R(1))

(***************************************************************************)
(* C22.  As claimed: for every pair of non-empty samples (any lengths for  *)
(* the independent test, equal lengths for the dependent test) the tester  *)
(* does not fail, counts 0 <= hits <= resamples done <= K during the run,  *)
(* and ends after exactly K resamples with the p-value hits / K, which     *)
(* lies in [0, 1].                                                         *)
(***************************************************************************)
C22_PValue ==
    (/\ \/ RunOf("independent")
        \/ RunOf("dependent") /\ Len(samples[1]) = Len(samples[2])
     /\ Len(samples[1]) >= 1 /\ Len(samples[2]) >= 1) =>
        /\ pc \in {"loop", "done"}
        /\ 0 <= counter_d /\ counter_d <= iteration /\ iteration <= K
        /\ pc = "done" =>
               /\ iteration = K
               /\ result = Returned(Frac(counter_d, K))
               /\ RLe(Zero, result.val) /\ RLe(result.val, R(1))

\* A row the constructor accepts: exactly four non-decreasing values.
ValidRow(row) == Len(row) = 4 /\ NonDecreasing(row)

AllRowsValid(c) ==
    \A j \in 1..Len(c) : \A i \in 1..Len(c[j]) : ValidRow(c[j][i])

(***************************************************************************)
(* C23.  For tables whose rows are all valid, measure_ambiguity returns    *)
(* one sequence per table, in table order, with one scalar per row, in row *)
(* order: scalar i of sequence j is the ambiguity of the number built from *)
(* row i of table j.                                                       *)
(***************************************************************************)
C23_Extraction ==
    (op = "measure_ambiguity" /\ AllRowsValid(tables)) =>
        /\ result.kind = "ok"
        /\ Len(result.val) = Len(tables)
        /\ \A j \in 1..Len(tables) :
               /\ Len(result.val[j]) = Len(tables[j])
               /\ \A i \in 1..Len(tables[j]) :
                      result.val[j][i] = ambiguity(tables[j][i])

C23_Witness ==
    /\ op = "measure_ambiguity"
    /\ tables = <<<<Lift(<<1, 2, 3, 4>>), Lift(<<0, 1, 3, 3>>)>>,
                  <<Lift(<<2, 2, 2, 2>>)>>>>
    /\ result = Returned(<<<<Frac(5, 6), Frac(7, 6)>>, <<Zero>>>>)

(***************************************************************************)
(* C24.  If any row of any table is not exactly four non-decreasing        *)
(* values, measure_ambiguity fails with an error and returns nothing, not  *)
(* even for the valid tables and rows.                                     *)
(***************************************************************************)
C24_InvalidRowFails ==
    (op = "measure_ambiguity" /\ ~AllRowsValid(tables)) =>
        /\ result.kind \in {"ValueError", "AssertionError"}
        /\ result.val = <<>>

C24_Witness ==
    /\ op = "measure_ambiguity"
    /\ tables = <<<<Lift(<<1, 2, 3, 4>>)>>,
                  <<Lift(<<2, 2, 2, 2>>), Lift(<<4, 3, 2, 1>>)>>>>
    /\ result = Raised("AssertionError")

\* The mean of a non-empty sequence.
Mean(x) == RDiv(sum(x), R(Len(x)))

(***************************************************************************)
(* C25.  As claimed: in every resample of the independent test the         *)
(* permutation of the pooled sequence of length n is split at index        *)
(* floor(n/2) into two groups that partition it, the second group being    *)
(* the first floor(n/2) elements and the first group the whole remainder,  *)
(* and the resampled statistic is mean(first group) - mean(second group).  *)
(***************************************************************************)
C25_SplitPartitions ==
    (RunOf("independent") /\ draw # <<>>) =>
        LET n == Len(draw)
            half == n \div 2
            second == SubSeq(draw, 1, half)
            first == SubSeq(draw, half + 1, n)
        IN  /\ n = Len(samples[1]) + Len(samples[2])
            /\ second_group(draw) = second
            /\ first_group(draw) = first
            /\ second_group(draw) \o first_group(draw) = draw
            /\ pc # "raised"
            /\ statistic = RSub(Mean(first), Mean(second))

\* The pair differences the dependent test forms from its two samples.
Differences ==
    LET n == IF Len(samples[1]) < Len(samples[2])
             THEN Len(samples[1]) ELSE Len(samples[2])
    IN  [i \in 1..n |-> RSub(samples[1][i], samples[2][i])]

(***************************************************************************)
(* C26.  In the dependent test the observed statistic is the sum of the    *)
(* pair differences X_i - Y_i and each resampled statistic is the sum of   *)
(* s_i * (X_i - Y_i) with every s_i in {-1, +1}; its absolute value is at  *)
(* most the sum of |X_i - Y_i|, and when all pair differences are 0 every  *)
(* resample is a hit and the p-value is exactly 1.                         *)
(***************************************************************************)
C26_DependentStatistic ==
    RunOf("dependent") =>
        LET d == Differences
        IN  /\ t_0 = sum(d)
            /\ iteration >= 1 =>
                   /\ draw \in [1..Len(d) -> {-1, 1}]
                   /\ statistic =
                          sum([i \in 1..Len(d) |-> RMul(R(draw[i]), d[i])])
                   /\ RLe(RAbs(statistic),
                          sum([i \in 1..Len(d) |-> RAbs(d[i])]))
            /\ (\A i \in 1..Len(d) : d[i] = Zero) =>
                   /\ counter_d = iteration
                   /\ pc = "done" => result = Returned(R(1))

C26_Witness ==
    /\ RunOf("dependent")
    /\ samples = <<<<R(1), R(0)>>, <<R(0), R(1)>>>>
    /\ draw = <<-1, 1>>
    /\ statistic = R(-2)
    /\ t_0 = Zero
    /\ pc = "done"
    /\ result = Returned(R(1))

(***************************************************************************)
(* C27.  In both testers the observed statistic is computed once, from the *)
(* original samples, before the first resample, and keeps its value in     *)
(* every later state; the samples and the pooled sequence or pair          *)
(* differences derived from them are never changed by a resample, so each  *)
(* resampled statistic depends only on them and on that resample's draw.   *)
(***************************************************************************)
C27_ObservedStatisticFixed ==
    /\ [](op = "tester" =>
            /\ pc = "call" => t_0 = None /\ iteration = 0
            /\ iteration >= 1 => t_0 # None
            /\ (RunOf("independent") /\ pc \in {"loop", "done"}) =>
                   /\ t_0 = RSub(Mean(samples[1]), Mean(samples[2]))
                   /\ concat = samples[1] \o samples[2]
                   /\ iteration >= 1 =>
                          /\ draw \in permutation(samples[1] \o samples[2])
                          /\ statistic =
                                 independent_algo(first_group(draw),
                                                  second_group(draw)).val
            /\ (RunOf("dependent") /\ pc \in {"loop", "done"}) =>
                   /\ t_0 = sum(Differences)
                   /\ concat = Differences
                   /\ iteration >= 1 =>
                          statistic = dependent_algo(Differences, draw))
    /\ [][op = "tester" =>
            /\ samples' = samples
            /\ pc # "call" => t_0' = t_0 /\ concat' = concat]_vars

C27_Witness ==
    /\ RunOf("independent")
    /\ samples = <<<<R(0), R(1)>>, <<R(1), R(1)>>>>
    /\ pc = "done"
    /\ iteration = K
    /\ t_0 = Frac(-1, 2)
    /\ draw = <<R(1), R(1), R(1), R(0)>>
    /\ statistic = R(-1)

\* The classification of one valid number as the claim C28 states it.
Classified(t) ==
    /\ is_positive(t) = RLe(Zero, t[1])
    /\ is_negative(t) = RLe(t[4], Zero)
    /\ is_arbitrary(t) = (RLt(t[1], Zero) /\ RLt(Zero, t[4]))
    /\ is_positive(t) \/ is_negative(t) \/ is_arbitrary(t)
    /\ is_arbitrary(t) => ~is_positive(t) /\ ~is_negative(t)
    /\ (is_positive(t) /\ is_negative(t)) => \A i \in 1..4 : t[i] = Zero
    /\ is_near_zero(t) => is_arbitrary(t)

IntervalProduct(a, b) ==
    <<Least(Outer(a, b)), Least(Inner(a, b)),
      Greatest(Inner(a, b)), Greatest(Outer(a, b))>>

(***************************************************************************)
(* C29.  As claimed: whichever routine the dispatch takes, A * B is the    *)
(* interval-product reference: outer boundaries the least and greatest of  *)
(* {a1*b1, a1*b4, a4*b1, a4*b4}, inner boundaries the least and greatest   *)
(* of {a2*b2, a2*b3, a3*b2, a3*b3}.                                        *)
(***************************************************************************)
C29_IntervalProduct ==
    op = "__mul__" => result = Returned(IntervalProduct(self, other))

C29_Witness ==
    /\ op = "__mul__"
    /\ self = Lift(<<-11, -7, -4, -2>>)
    /\ other = Lift(<<-1, 4, 5, 7>>)
    /\ routine = "semi_restricted_multiplication"
    /\ result = Returned(Lift(<<-77, -35, -16, 11>>))

(***************************************************************************)
(* C30.  A * B and B * A either both fail or both return numbers with the  *)
(* same four boundaries, although the two calls take mirrored sub-cases of *)
(* the restricted and semi-restricted routines.                            *)
(***************************************************************************)
C30_Commutative ==
    op = "__mul__commuted" =>
        LET ab == rmul(self, other)
        IN  /\ (result.kind = "ok") = (ab.res.kind = "ok")
            /\ result.kind = "ok" => result.val = ab.res.val
            /\ routine = ab.routine
            /\ (routine = "restricted_multiplication"
                /\ ~(is_positive(self) /\ is_negative(self))
                /\ ~(is_positive(other) /\ is_negative(other))) =>
                   /\ ab.branch = 3 => branch = 4
                   /\ ab.branch = 4 => branch = 3

C30_Witness ==
    /\ op = "__mul__commuted"
    /\ self = Lift(<<1, 2, 3, 4>>)
    /\ other = Lift(<<-11, -7, -4, -2>>)
    /\ routine = "restricted_multiplication"
    /\ branch = 4
    /\ rmul(self, other).branch = 3
    /\ result = Returned(Lift(<<-44, -21, -8, -2>>))

====
